---- MODULE Spec2Model ----
(***************************************************************************)
(* RealtimeMonitor (src/src/realtime_monitor.py): the capture callback,    *)
(* the monitoring loop run by the worker thread, and the start/stop        *)
(* lifecycle as driven by caller threads.                                  *)
(*                                                                         *)
(* Frequencies are integers in centihertz (1 = 0.01 Hz), magnitudes are    *)
(* integers in dB.  Samples are identified by their capture index: chunk   *)
(* k of a run with buffer_size B holds samples (k-1)*B+1 .. k*B.           *)
(***************************************************************************)
EXTENDS Integers, Sequences, FiniteSets, TLC

\* ---------------------------------------------------------------- bounds
\* Spec: two calling threads around one monitoring session
MaxChunks == 2          \* chunks the audio backend delivers
MaxSessions == 1        \* start() calls that begin monitoring
MaxCallbacks == 1       \* registrations in event_callbacks
MaxBufferSize == 2      \* configured samples per chunk, 1..MaxBufferSize
MaxWindow == 2          \* configured samples per window, 1..MaxWindow
\* RestartSpec: one calling thread that starts monitoring again after a stop
MaxRestarts == 2        \* start() calls that begin monitoring
RestartChunks == 1      \* chunks the audio backend delivers
\* PipelineSpec: one timed run, seen from capture to event list
PipelineChunks == 3     \* chunks the audio backend delivers
PipelineCallbacks == 2  \* registrations in event_callbacks
PipelineBufferSize == 3 \* configured samples per chunk
PipelineWindow == 3     \* configured samples per window
\* the capacity N of the bounded-queue scenario
QueueCapacity == 1
\* PeakSpec: one call of find_peaks
PeakLen == 7            \* length of the magnitude sequence
PeakTop == 3            \* magnitudes are 0..PeakTop
PeakThreshold == 1      \* the height passed to find_peaks
MaxDistance == 3        \* the distance passed to find_peaks, 0..MaxDistance

\* ------------------------------------------------- _default_config values
infra_min == 1
infra_max == 2000
ultra_min == 2000000
ultra_max == 4800000
infra_threshold == -40
ultra_threshold == -50

\* Frequencies (centihertz) of the spectral bins a streamed window is
\* observed at, ascending as np.fft.fftfreq yields them: 10 Hz, 1 kHz, 30 kHz.
StreamBinFreqs == <<1000, 100000, 3000000>>
\* Magnitude levels (dB) a bin of a streamed window can take.
StreamMagLevels == {-60, -30}
StreamSpectra == [1..Len(StreamBinFreqs) -> StreamMagLevels]

MainThread == "main"
OtherThread == "other"
Callers == {MainThread, OtherThread}
NoCaller == "nobody"
WorkerIds == 1..(IF MaxSessions > MaxRestarts THEN MaxSessions ELSE MaxRestarts)
NoThread == 0
CallbackIds == {"good", "raises"}
NoCallback == "none"
NoSummary == "none"

VARIABLES
    is_monitoring,     \* self.is_monitoring
    monitor_thread,    \* self.monitor_thread: a worker id, or NoThread
    audio_queue,       \* self.audio_queue: chunk numbers, oldest first
    event_callbacks,   \* self.event_callbacks
    detected_events,   \* self.detected_events
    buffer_size,       \* self.buffer_size * channels: samples per chunk
    samples_per_interval, \* int(sample_rate * display_interval)
    workers,           \* the _monitor_loop threads
    callers,           \* the threads calling start/stop/...
    n_captured,        \* chunks delivered by the audio backend so far
    status_logged,     \* an "Audio callback status" warning has been logged
    now,               \* datetime.now(), as a logical clock
    peak_finder,       \* a call of scipy.signal.find_peaks
    filter,            \* a call of apply_bandpass_filter / bandpass_filter
    analyzer,          \* an AudioAnalyzer and the buffer it analyses
    batch              \* a BatchProcessor and the directory it processes

\* The state of the offline analysis, which RealtimeMonitor never touches.
offline_vars == <<peak_finder, filter, analyzer, batch>>

\* The state of RealtimeMonitor and its threads.
monitor_vars == <<is_monitoring, monitor_thread, audio_queue, event_callbacks,
                  detected_events, buffer_size, samples_per_interval, workers,
                  callers, n_captured, status_logged, now>>

vars == <<is_monitoring, monitor_thread, audio_queue, event_callbacks,
          detected_events, buffer_size, samples_per_interval, workers, callers,
          n_captured, status_logged, now, peak_finder, filter, analyzer, batch>>

\* ------------------------------------------------------------- helpers
Range(s) == {s[i] : i \in DOMAIN s}

Drop(s, n) == SubSeq(s, n + 1, Len(s))

Take(s, n) == SubSeq(s, 1, n)

\* indata.copy().flatten(): the samples of chunk k
ChunkSamples(k) == [i \in 1..buffer_size |-> (k - 1) * buffer_size + i]

\* A monitoring thread: its position in _monitor_loop, accumulated_audio,
\* the events of the window being handled with the positions of the two for
\* loops; and, for the record, the samples it has dequeued, the windows whose
\* handling it has completed, whether stop() has cleared the flag since it
\* started, whether the event list was emptied since its last append, and the
\* callback invocations made so far for the event being dispatched, and how
\* many times the window at the front of accumulated_audio went to detection.
NoWorker ==
    [pc |-> "unborn", acc |-> <<>>, pending |-> <<>>, ev |-> 0, cb |-> 0,
     dequeued |-> <<>>, analysed |-> <<>>, stop_signalled |-> FALSE,
     list_emptied |-> FALSE, invoked |-> <<>>, tries |-> 0]

\* A calling thread: its position in start()/stop(), the arguments of the
\* call, the thread stop() joins; and, while control is handed back (pc
\* "returned"), what the call did and what the caller gets.
IdleCaller ==
    [pc |-> "idle", op |-> "none", device |-> "ok", duration |-> "none",
     nested |-> FALSE, joining |-> NoThread,
     device_failed |-> FALSE, join_timed_out |-> FALSE, preempts |-> NoCaller,
     preempted |-> FALSE, outcome |-> "none", printed |-> NoSummary]

Alive(w) == w # NoThread /\ workers[w].pc \notin {"unborn", "done"}

NumSpawned == Cardinality({w \in WorkerIds : workers[w].pc # "unborn"})

\* The stream of start() on thread t is open while t is inside the with block.
StreamOpen(t) == callers[t].pc = "start_wait"

\* ---------------------------------------------------- _process_audio_buffer
BandMask(frequencies, lo, hi) ==
    {i \in DOMAIN frequencies : frequencies[i] >= lo /\ frequencies[i] <= hi}

\* np.argmax over the masked magnitudes: the first index holding the maximum
ArgMax(mask, magnitudes_db) ==
    CHOOSE i \in mask : \A j \in mask :
        \/ magnitudes_db[i] > magnitudes_db[j]
        \/ (magnitudes_db[i] = magnitudes_db[j] /\ i <= j)

BandEvents(type, frequencies, magnitudes_db, lo, hi, threshold, ts) ==
    LET mask == BandMask(frequencies, lo, hi) IN
    IF mask = {} THEN <<>>
    ELSE LET max_idx == ArgMax(mask, magnitudes_db) IN
         IF magnitudes_db[max_idx] > threshold
         THEN << [type |-> type, frequency_hz |-> frequencies[max_idx],
                  magnitude_db |-> magnitudes_db[max_idx], timestamp |-> ts] >>
         ELSE <<>>

\* _default_config of both classes (analyzer.py lines 48-63,
\* realtime_monitor.py lines 55-73); min_duration is in microseconds.
DefaultConfig ==
    [sample_rate |-> 96000,
     infrasound |-> [min |-> infra_min, max |-> infra_max,
                     threshold_db |-> infra_threshold,
                     min_duration |-> 500000],
     ultrasound |-> [min |-> ultra_min, max |-> ultra_max,
                     threshold_db |-> ultra_threshold,
                     min_duration |-> 50000]]

\* _process_audio_buffer under configuration config
ProcessAudioBufferWith(config, frequencies, magnitudes_db, ts) ==
    BandEvents("infrasound", frequencies, magnitudes_db,
               config.infrasound.min, config.infrasound.max,
               config.infrasound.threshold_db, ts)
    \o BandEvents("ultrasound", frequencies, magnitudes_db,
                  config.ultrasound.min, config.ultrasound.max,
                  config.ultrasound.threshold_db, ts)

ProcessAudioBuffer(frequencies, magnitudes_db, ts) ==
    ProcessAudioBufferWith(DefaultConfig, frequencies, magnitudes_db, ts)

\* ------------------------------------------------------------------ Init
InitWith(buffer_sizes, windows) ==
    /\ is_monitoring = FALSE
    /\ monitor_thread = NoThread
    /\ audio_queue = <<>>
    /\ event_callbacks = <<>>
    /\ detected_events = <<>>
    /\ buffer_size \in buffer_sizes
    /\ samples_per_interval \in windows
    /\ workers = [w \in WorkerIds |-> NoWorker]
    /\ callers = [t \in Callers |-> IdleCaller]
    /\ n_captured = 0
    /\ status_logged = FALSE
    /\ now = 0

\* -------------------------------------------------------- _audio_callback
\* A put that gives the chunk up when QueueCapacity chunks are waiting.
QueuePutNowait(q, chunk) == IF Len(q) >= QueueCapacity THEN q ELSE Append(q, chunk)

\* self.audio_queue.put(...) on queue.Queue(): no maxsize, so never full
QueuePut(q, chunk) == Append(q, chunk)

\* One invocation by the audio backend while a stream is open: log a
\* non-empty status, then put a copy of the chunk on the queue.
AudioCallback(status, max_chunks) ==
    /\ \E t \in Callers : StreamOpen(t)
    /\ n_captured < max_chunks
    /\ n_captured' = n_captured + 1
    /\ status_logged' = (status_logged \/ status)
    /\ audio_queue' = QueuePut(audio_queue, n_captured + 1)
    /\ UNCHANGED <<offline_vars, is_monitoring, monitor_thread, event_callbacks, detected_events,
                   buffer_size, samples_per_interval, workers, callers, now>>

\* ----------------------------------------------------------- _monitor_loop
\* accumulated_audio[:samples_per_interval], the window handed to detection
Window(acc) == Take(acc, samples_per_interval)

\* A slide that is one sample short.
SlideBufferShort(acc) == Drop(acc, samples_per_interval - 1)

\* accumulated_audio[samples_per_interval:], line 209
SlideBuffer(acc) == Drop(acc, samples_per_interval)

\* The append left out.
AppendEventDropped(events, event) == events

\* self.detected_events.append(event), line 194
AppendEvent(events, event) == Append(events, event)

\* `while self.is_monitoring`: enter the next iteration or leave the loop
WorkerCheck(w) ==
    /\ workers[w].pc = "check"
    /\ workers' = [workers EXCEPT ![w].pc =
                       IF is_monitoring THEN "get" ELSE "done"]
    /\ UNCHANGED <<offline_vars, is_monitoring, monitor_thread, audio_queue, event_callbacks,
                   detected_events, buffer_size, samples_per_interval, callers,
                   n_captured, status_logged, now>>

\* audio_queue.get(timeout=1.0) raised queue.Empty: `continue`
WorkerGetTimeout(w) ==
    /\ workers[w].pc = "get"
    /\ audio_queue = <<>>
    /\ workers' = [workers EXCEPT ![w].pc = "check"]
    /\ UNCHANGED <<offline_vars, is_monitoring, monitor_thread, audio_queue, event_callbacks,
                   detected_events, buffer_size, samples_per_interval, callers,
                   n_captured, status_logged, now>>

\* A chunk is dequeued and accumulated (lines 181-184); with a full window
\* available _process_audio_buffer runs on it (lines 187-189).  Detection
\* either raises (caught and logged at lines 213-214, the buffer is left as
\* it is) or returns the events of the window's spectrum.
WorkerGetChunk(w) ==
    /\ workers[w].pc = "get"
    /\ audio_queue # <<>>
    /\ LET chunk == Head(audio_queue)
           acc2 == workers[w].acc \o ChunkSamples(chunk)
           deq2 == workers[w].dequeued \o ChunkSamples(chunk)
       IN
       /\ audio_queue' = Tail(audio_queue)
       /\ IF Len(acc2) < samples_per_interval
          THEN /\ workers' = [workers EXCEPT ![w].acc = acc2,
                                             ![w].dequeued = deq2,
                                             ![w].pc = "check"]
               /\ UNCHANGED now
          ELSE \E magnitudes_db \in StreamSpectra, raises \in BOOLEAN :
               IF raises
               THEN /\ workers' = [workers EXCEPT ![w].acc = acc2,
                                                  ![w].dequeued = deq2,
                                                  ![w].tries = @ + 1,
                                                  ![w].pc = "check"]
                    /\ UNCHANGED now
               ELSE LET events == ProcessAudioBuffer(StreamBinFreqs,
                                                     magnitudes_db, now + 1)
                    IN
                    /\ now' = now + 1
                    /\ IF events = <<>>
                       THEN workers' = [workers EXCEPT
                                ![w].acc = SlideBuffer(acc2),
                                ![w].dequeued = deq2,
                                ![w].analysed = Append(@, Window(acc2)),
                                ![w].tries = 0,
                                ![w].pc = "check"]
                       ELSE workers' = [workers EXCEPT
                                ![w].acc = acc2,
                                ![w].dequeued = deq2,
                                ![w].pending = events,
                                ![w].ev = 1,
                                ![w].tries = @ + 1,
                                ![w].pc = "append"]
    /\ UNCHANGED <<offline_vars, is_monitoring, monitor_thread, event_callbacks,
                   detected_events, buffer_size, samples_per_interval, callers,
                   n_captured, status_logged>>

\* line 194: the event joins the running list; the callback loop starts
WorkerAppend(w) ==
    /\ workers[w].pc = "append"
    /\ detected_events' = AppendEvent(detected_events,
                                      workers[w].pending[workers[w].ev])
    /\ workers' = [workers EXCEPT ![w].cb = 1, ![w].pc = "callbacks",
                                  ![w].list_emptied = FALSE,
                                  ![w].invoked = <<>>]
    /\ UNCHANGED <<offline_vars, is_monitoring, monitor_thread, audio_queue, event_callbacks,
                   buffer_size, samples_per_interval, callers, n_captured,
                   status_logged, now>>

\* The worker is inside (or about to make) the call callback(event) of the
\* callback at position cb of self.event_callbacks.
InCallback(w) ==
    /\ workers[w].pc = "callbacks"
    /\ workers[w].cb <= Len(event_callbacks)

CurrentEvent(w) == workers[w].pending[workers[w].ev]

\* A callback loop that a raising callback ends.
AfterCallbackAbort(cb, raised, n) == IF raised THEN n + 1 ELSE cb + 1

\* lines 197-201: the position of the for loop after callback(event) has
\* returned or raised; the try/except is inside the loop, so the loop goes
\* on to the next of the n callbacks either way.
AfterCallback(cb, raised, n) == cb + 1

\* callback(event) raises an Exception
Raises(callback) == callback = "raises"

\* lines 197-201: callback(event) returns or raises; what it raises is
\* caught and logged, and the loop goes on to the next callback.
WorkerCallback(w) ==
    /\ InCallback(w)
    /\ LET callback == event_callbacks[workers[w].cb] IN
       workers' = [workers EXCEPT
           ![w].invoked = Append(@, [callback |-> callback,
                                     raised |-> Raises(callback)]),
           ![w].cb = AfterCallback(@, Raises(callback),
                                   Len(event_callbacks))]
    /\ UNCHANGED <<offline_vars, is_monitoring, monitor_thread, audio_queue, event_callbacks,
                   detected_events, buffer_size, samples_per_interval, callers,
                   n_captured, status_logged, now>>

\* lines 203-209: the event is printed; after the last event of the window
\* the processed samples are removed from the accumulation buffer.
WorkerEventDone(w) ==
    /\ workers[w].pc = "callbacks"
    /\ workers[w].cb > Len(event_callbacks)
    /\ IF workers[w].ev < Len(workers[w].pending)
       THEN workers' = [workers EXCEPT ![w].ev = @ + 1, ![w].cb = 0,
                                       ![w].list_emptied = FALSE,
                                       ![w].pc = "append"]
       ELSE workers' = [workers EXCEPT
                ![w].acc = SlideBuffer(@),
                ![w].analysed = Append(@, Window(workers[w].acc)),
                ![w].pending = <<>>, ![w].ev = 0, ![w].cb = 0,
                ![w].list_emptied = FALSE, ![w].invoked = <<>>,
                ![w].tries = 0,
                ![w].pc = "check"]
    /\ UNCHANGED <<offline_vars, is_monitoring, monitor_thread, audio_queue, event_callbacks,
                   detected_events, buffer_size, samples_per_interval, callers,
                   n_captured, status_logged, now>>

WorkerStep(w) ==
    \/ WorkerCheck(w)
    \/ WorkerGetTimeout(w)
    \/ WorkerGetChunk(w)
    \/ WorkerAppend(w)
    \/ WorkerCallback(w)
    \/ WorkerEventDone(w)

\* The workers, with those in their callback loop told that the event list
\* has been emptied under them.
ListEmptied ==
    [w \in WorkerIds |->
        IF workers[w].pc = "callbacks"
        THEN [workers[w] EXCEPT !.list_emptied = TRUE] ELSE workers[w]]

\* ------------------------------------------------------- register_callback
RegisterCallback(t, callback, max_callbacks) ==
    /\ callers[t].pc = "idle"
    /\ Len(event_callbacks) < max_callbacks
    /\ event_callbacks' = Append(event_callbacks, callback)
    /\ UNCHANGED <<offline_vars, is_monitoring, monitor_thread, audio_queue, detected_events,
                   buffer_size, samples_per_interval, workers, callers,
                   n_captured, status_logged, now>>

\* ------------------------------------------------------------ clear_events
ClearEvents(t) ==
    /\ callers[t].pc = "idle"
    /\ detected_events # <<>>
    /\ detected_events' = <<>>
    /\ workers' = ListEmptied
    /\ UNCHANGED <<offline_vars, is_monitoring, monitor_thread, audio_queue, event_callbacks,
                   buffer_size, samples_per_interval, callers,
                   n_captured, status_logged, now>>

\* -------------------------------------------------------------------- stop
\* The early return left out.
StopNeverNoop == FALSE

\* line 290: `if not self.is_monitoring: return`
StopIsNoop == ~is_monitoring

\* What start() hands to its caller: the `except Exception` of line 283
\* swallows a failed device open, and start() returns None.
StartOutcome(device_failed) == "returned"

\* What stop() hands to its caller after the join: it returns None whether
\* or not the join timed out (lines 297-313 raise nothing).
StopOutcome(timed_out) == "returned"

\* Control goes back to the caller of start() or stop().
Returned(c) ==
    [c EXCEPT !.pc = "returned", !.device = "ok", !.duration = "none",
              !.joining = NoThread, !.preempted = FALSE,
              !.outcome = IF c.op = "start"
                          THEN StartOutcome(c.device_failed)
                          ELSE StopOutcome(c.join_timed_out)]

\* Some other thread whose start(duration=d) is inside its sleep, if any.
TimedWaiter(t) ==
    IF \E u \in Callers \ {t} : StreamOpen(u) /\ callers[u].duration = "timed"
    THEN CHOOSE u \in Callers \ {t} :
             StreamOpen(u) /\ callers[u].duration = "timed"
    ELSE NoCaller

\* Lines 290-297 on thread t, entered from a caller (op "stop") or from the
\* finally clause of start() (nested): return at once when not monitoring;
\* otherwise clear the flag and pick the thread to join.
StopBody(t, c) ==
    IF StopIsNoop
    THEN /\ callers' = [callers EXCEPT ![t] = Returned(c)]
         /\ UNCHANGED <<is_monitoring, workers>>
    ELSE LET u == IF c.nested THEN NoCaller ELSE TimedWaiter(t) IN
         /\ is_monitoring' = FALSE
         /\ workers' = [w \in WorkerIds |->
                IF Alive(w) THEN [workers[w] EXCEPT !.stop_signalled = TRUE]
                ELSE workers[w]]
         /\ callers' = [v \in Callers |->
                IF v = t
                THEN [c EXCEPT !.pc = "stop_join",
                               !.joining = IF Alive(monitor_thread)
                                           THEN monitor_thread ELSE NoThread,
                               !.preempts = u]
                ELSE IF v = u THEN [callers[v] EXCEPT !.preempted = TRUE]
                ELSE callers[v]]

StopCall(t) ==
    /\ callers[t].pc = "idle"
    /\ StopBody(t, [IdleCaller EXCEPT !.op = "stop"])
    /\ UNCHANGED <<offline_vars, monitor_thread, audio_queue, event_callbacks,
                   detected_events, buffer_size, samples_per_interval,
                   n_captured, status_logged, now>>

\* lines 300-313: the summary printed once the join is over
Summary(events) ==
    [total |-> Len(events),
     infrasound |-> Cardinality({i \in DOMAIN events :
                                     events[i].type = "infrasound"}),
     ultrasound |-> Cardinality({i \in DOMAIN events :
                                     events[i].type = "ultrasound"})]

StopFinish(t, timed_out) ==
    /\ callers' = [callers EXCEPT ![t] =
           Returned([callers[t] EXCEPT !.join_timed_out = timed_out,
                                       !.printed = Summary(detected_events)])]
    /\ UNCHANGED <<offline_vars, is_monitoring, monitor_thread, audio_queue, event_callbacks,
                   detected_events, buffer_size, samples_per_interval, workers,
                   n_captured, status_logged, now>>

\* lines 297-298: nothing to join, or the joined worker has left its loop
StopJoinDone(t) ==
    /\ callers[t].pc = "stop_join"
    /\ ~Alive(callers[t].joining)
    /\ StopFinish(t, FALSE)

\* The worker is handling the events of a window: appending, running the
\* callbacks, printing.  Nothing bounds how long the callbacks take.
Busy(w) == w # NoThread /\ workers[w].pc \in {"append", "callbacks"}

\* line 298: join(timeout=2.0) gives up on a worker that is still busy (a
\* worker waiting in get(timeout=1.0) is back at its loop test within 1 s)
StopJoinTimeout(t) ==
    /\ callers[t].pc = "stop_join"
    /\ Busy(callers[t].joining)
    /\ StopFinish(t, TRUE)

\* ------------------------------------------------------------------- start
\* A start() that goes ahead whatever the flag says.
StartNeverNoop == FALSE

\* line 239: `if self.is_monitoring: ... return`
StartIsNoop == is_monitoring

\* Lines 239-251: return at once when already monitoring; otherwise register
\* the callback, raise the flag, reset the event list, create and start the
\* monitoring thread.
StartCall(t, device, duration, callback, max_starts, max_callbacks) ==
    /\ callers[t].pc = "idle"
    /\ is_monitoring \/ NumSpawned < max_starts
    /\ callback # NoCallback => Len(event_callbacks) < max_callbacks
    /\ LET c == [IdleCaller EXCEPT !.op = "start"]
           w == NumSpawned + 1
       IN
       IF StartIsNoop
       THEN /\ callers' = [callers EXCEPT ![t] = Returned(c)]
            /\ UNCHANGED <<is_monitoring, monitor_thread, event_callbacks,
                           detected_events, workers>>
       ELSE /\ event_callbacks' = IF callback # NoCallback
                                  THEN Append(event_callbacks, callback)
                                  ELSE event_callbacks
            /\ is_monitoring' = TRUE
            /\ detected_events' = <<>>
            /\ monitor_thread' = w
            /\ workers' = [ListEmptied EXCEPT ![w].pc = "check"]
            /\ callers' = [callers EXCEPT ![t] =
                   [c EXCEPT !.pc = "start_open", !.device = device,
                             !.duration = duration]]
    /\ UNCHANGED <<offline_vars, audio_queue, buffer_size, samples_per_interval, n_captured,
                   status_logged, now>>

\* lines 285-286: `finally: self.stop()`
StartFinally(t, c) ==
    /\ StopBody(t, [c EXCEPT !.nested = TRUE])
    /\ UNCHANGED <<offline_vars, monitor_thread, audio_queue, event_callbacks,
                   detected_events, buffer_size, samples_per_interval,
                   n_captured, status_logged, now>>

\* lines 254-263: sd.InputStream(...) opens the device and the with block
\* is entered
StartOpen(t) ==
    /\ callers[t].pc = "start_open"
    /\ callers[t].device = "ok"
    /\ callers' = [callers EXCEPT ![t].pc = "start_wait"]
    /\ UNCHANGED <<offline_vars, is_monitoring, monitor_thread, audio_queue, event_callbacks,
                   detected_events, buffer_size, samples_per_interval, workers,
                   n_captured, status_logged, now>>

\* lines 257 and 283-286: sd.InputStream(...) raises; the exception is caught
\* and logged, and the finally clause calls stop()
StartOpenFails(t) ==
    /\ callers[t].pc = "start_open"
    /\ callers[t].device = "bad"
    /\ StartFinally(t, [callers[t] EXCEPT !.device_failed = TRUE])

\* line 273, `if duration:`: a duration of None and a duration of 0 are both
\* false, and start() then polls is_monitoring instead of sleeping
SleepsFor(duration) == duration = "timed"

\* The durations start() can be given: None, 0, a positive number of seconds.
Durations == {"none", "zero", "timed"}

\* lines 273-279 and 285-286: time.sleep(duration) is over, or the polling
\* loop has seen is_monitoring false; leaving the with block closes the
\* stream, and the finally clause calls stop()
StartWaitOver(t) ==
    /\ callers[t].pc = "start_wait"
    /\ SleepsFor(callers[t].duration) \/ ~is_monitoring
    /\ StartFinally(t, callers[t])

\* lines 281-282 and 285-286: Ctrl+C reaches the main thread while it waits
StartInterrupted(t) ==
    /\ t = MainThread
    /\ callers[t].pc = "start_wait"
    /\ StartFinally(t, callers[t])

\* The caller has taken the result of its call and is free to call again.
Resume(t) ==
    /\ callers[t].pc = "returned"
    /\ callers' = [callers EXCEPT ![t] = IdleCaller]
    /\ UNCHANGED <<offline_vars, is_monitoring, monitor_thread, audio_queue, event_callbacks,
                   detected_events, buffer_size, samples_per_interval, workers,
                   n_captured, status_logged, now>>

\* ------------------------------------------------------------ the system
CallerProgress(t) ==
    \/ StartOpen(t)
    \/ StartOpenFails(t)
    \/ StartWaitOver(t)
    \/ StopJoinDone(t)
    \/ StopJoinTimeout(t)
    \/ Resume(t)

\* The system with the calling threads `threads`, bounded to max_starts
\* monitoring sessions, max_chunks chunks from the audio backend and
\* max_callbacks registered callbacks.
System(threads, max_starts, max_chunks, max_callbacks) ==
    \/ \E status \in BOOLEAN : AudioCallback(status, max_chunks)
    \/ \E w \in WorkerIds : WorkerStep(w)
    \/ \E t \in threads :
        \/ \E device \in {"ok", "bad"}, duration \in Durations,
              callback \in CallbackIds \cup {NoCallback} :
                  StartCall(t, device, duration, callback,
                            max_starts, max_callbacks)
        \/ StopCall(t)
        \/ \E callback \in CallbackIds :
               RegisterCallback(t, callback, max_callbacks)
        \/ ClearEvents(t)
        \/ CallerProgress(t)
        \/ StartInterrupted(t)

\* No offline analysis is under way.
NoPeakFinder == [pc |-> "idle"]

NoFilter == [pc |-> "idle"]

NoAnalyzer == [pc |-> "idle"]

NoBatch == [pc |-> "idle"]

OfflineIdle ==
    /\ peak_finder = NoPeakFinder
    /\ filter = NoFilter
    /\ analyzer = NoAnalyzer
    /\ batch = NoBatch

\* Two calling threads around one monitoring session.
Init == InitWith(1..MaxBufferSize, 1..MaxWindow) /\ OfflineIdle

Next == System(Callers, MaxSessions, MaxChunks, MaxCallbacks)

Spec == Init /\ [][Next]_vars

\* One calling thread that starts monitoring again after a stop.
RestartNext == System({MainThread}, MaxRestarts, RestartChunks, MaxCallbacks)

RestartSpec == Init /\ [][RestartNext]_vars

\* The scheduler runs every thread that can take a step: worker threads and
\* threads inside start()/stop().  New calls and Ctrl+C are up to the caller.
FairRestartSpec ==
    /\ RestartSpec
    /\ \A w \in WorkerIds : WF_vars(WorkerStep(w))
    /\ \A t \in Callers : WF_vars(CallerProgress(t))

\* One calling thread and one monitoring session, with longer captures and
\* more chunk and window sizes.
PipelineInit ==
    InitWith(1..PipelineBufferSize, 1..PipelineWindow) /\ OfflineIdle

PipelineNext == System({MainThread}, 1, PipelineChunks, PipelineCallbacks)

PipelineSpec == PipelineInit /\ [][PipelineNext]_vars

\* ------------------------------------------------ scipy.signal.find_peaks
\* As called at analyzer.py lines 209-213 and 258-262: find_peaks(x,
\* height=threshold, distance=d).  Indices are 1-based here.

\* The last index of the run of equal samples that starts at i.
PlateauEnd(x, i) ==
    CHOOSE r \in i..Len(x) :
        /\ \A k \in i..r : x[k] = x[i]
        /\ r = Len(x) \/ x[r + 1] # x[i]

\* The local maxima: a sample, or the middle (rounded down) of a flat run of
\* samples, that is strictly higher than the samples just before and just
\* after it.  The first and the last sample are never maxima.
LocalMaxima(x) ==
    { (i + PlateauEnd(x, i)) \div 2 :
        i \in { i \in 2..(Len(x) - 1) :
                   /\ x[i - 1] < x[i]
                   /\ PlateauEnd(x, i) < Len(x)
                   /\ x[PlateauEnd(x, i) + 1] < x[i] } }

\* height=threshold keeps the maxima whose height is at least the threshold
SelectByHeight(x, peaks, height) == {p \in peaks : x[p] >= height}

\* A separation test that lets peaks one bin too close through.
TooCloseLax(a, b, distance) ==
    (IF a > b THEN a - b ELSE b - a) < distance - 1

\* Two peak indices are too close when they differ by less than distance.
TooClose(a, b, distance) ==
    (IF a > b THEN a - b ELSE b - a) < distance

\* The sequences that list every element of S once.
Orderings(S) ==
    { o \in [1..Cardinality(S) -> S] :
        \A i, j \in DOMAIN o : i # j => o[i] # o[j] }

\* Visiting orders that ignore the heights.
VisitOrdersAnyOrder(x, peaks) == Orderings(peaks)

\* The orders in which the distance condition can visit the peaks: from the
\* highest to the lowest, as given by np.argsort of the heights.  argsort
\* uses an unstable sort, so equal heights come in either order.
VisitOrders(x, peaks) ==
    { o \in Orderings(peaks) :
        \A i, j \in DOMAIN o : i < j => x[o[i]] >= x[o[j]] }

\* The distance condition: each visited peak that is still kept removes
\* every other peak that is too close to it.
RECURSIVE SelectByPeakDistance(_, _, _)
SelectByPeakDistance(keep, order, distance) ==
    IF order = <<>> THEN keep
    ELSE LET j == Head(order) IN
         IF j \notin keep
         THEN SelectByPeakDistance(keep, Tail(order), distance)
         ELSE SelectByPeakDistance(
                  {k \in keep : k = j \/ ~TooClose(j, k, distance)},
                  Tail(order), distance)

\* The elements of a set of numbers in ascending order.
RECURSIVE Ascending(_)
Ascending(S) ==
    IF S = {} THEN <<>>
    ELSE LET least == CHOOSE a \in S : \A b \in S : a <= b
         IN <<least>> \o Ascending(S \ {least})

\* What find_peaks can return: a ValueError for a distance below 1,
\* otherwise the kept peak indices in ascending order.
FindPeaks(x, height, distance) ==
    IF distance < 1
    THEN { [error |-> "ValueError", peaks |-> <<>>] }
    ELSE LET qualifying == SelectByHeight(x, LocalMaxima(x), height) IN
         { [error |-> "none",
            peaks |-> Ascending(SelectByPeakDistance(qualifying, o, distance))]
           : o \in VisitOrders(x, qualifying) }

\* find_peaks is called on a magnitude sequence.
PeakInit ==
    /\ InitWith({1}, {1})
    /\ batch = NoBatch
    /\ filter = NoFilter
    /\ analyzer = NoAnalyzer
    /\ peak_finder \in
           { [pc |-> "called", x |-> x, height |-> PeakThreshold,
              distance |-> d, peaks |-> <<>>] :
             x \in [1..PeakLen -> 0..PeakTop], d \in 0..MaxDistance }

FindPeaksReturns ==
    /\ peak_finder.pc = "called"
    /\ \E r \in FindPeaks(peak_finder.x, peak_finder.height,
                           peak_finder.distance) :
           /\ r.error = "none"
           /\ peak_finder' = [peak_finder EXCEPT !.pc = "returned",
                                                 !.peaks = r.peaks]
    /\ UNCHANGED <<monitor_vars, filter, analyzer, batch>>

FindPeaksRaises ==
    /\ peak_finder.pc = "called"
    /\ \E r \in FindPeaks(peak_finder.x, peak_finder.height,
                           peak_finder.distance) :
           /\ r.error # "none"
           /\ peak_finder' = [peak_finder EXCEPT !.pc = "raised"]
    /\ UNCHANGED <<monitor_vars, filter, analyzer, batch>>

PeakNext == FindPeaksReturns \/ FindPeaksRaises

PeakSpec == PeakInit /\ [][PeakNext]_vars

\* ---------------------------------------------------- apply_bandpass_filter
\* analyzer.py lines 120-128 and signal_processing.py lines 14-19.  The code
\* works with fractions of the Nyquist frequency; here every quantity is
\* that fraction times the Nyquist frequency, in centihertz, which keeps the
\* arithmetic exact: 0.0001 is nyquist / 10000, 0.9999 is nyquist minus that.

\* Sample rates (Hz) and cutoff frequencies (centihertz) of the calls.
SampleRates == {16000, 40000, 96000}

Cutoffs == {1, 2000, 790000, 800000, 2000000, 4700000, 4800000}

Min2(a, b) == IF a < b THEN a ELSE b

Max2(a, b) == IF a > b THEN a ELSE b

\* nyquist = sample_rate / 2, in centihertz
Nyquist(sample_rate) == (sample_rate * 100) \div 2

\* low = max(0.0001, min(low, 0.9999)); high = max(low + 0.0001,
\* min(high, 0.9999))
BandEdges(lowcut, highcut, sample_rate) ==
    LET nyquist == Nyquist(sample_rate)
        step == nyquist \div 10000
        low == Max2(step, Min2(lowcut, nyquist - step))
        high == Max2(low + step, Min2(highcut, nyquist - step))
    IN [low |-> low, high |-> high, nyquist |-> nyquist]

\* signal.butter(order, [low, high], btype='band') accepts only critical
\* frequencies with 0 < low < high < 1 and raises ValueError otherwise
ButterAccepts(edges) ==
    /\ 0 < edges.low
    /\ edges.low < edges.high
    /\ edges.high < edges.nyquist

\* The bandpass filter is called with some cutoffs at some sample rate.
BandpassInit ==
    /\ InitWith({1}, {1})
    /\ batch = NoBatch
    /\ peak_finder = NoPeakFinder
    /\ analyzer = NoAnalyzer
    /\ filter \in
           { [pc |-> "called", lowcut |-> lo, highcut |-> hi,
              sample_rate |-> sr, edges |-> BandEdges(1, 2, 96000)] :
             lo \in Cutoffs, hi \in Cutoffs, sr \in SampleRates }

\* The edges are normalised and handed to the filter design, which builds
\* the filter or raises.
ApplyBandpassFilter ==
    /\ filter.pc = "called"
    /\ LET edges == BandEdges(filter.lowcut, filter.highcut,
                              filter.sample_rate)
       IN filter' = [filter EXCEPT
              !.edges = edges,
              !.pc = IF ButterAccepts(edges) THEN "filtered"
                     ELSE "ValueError"]
    /\ UNCHANGED <<monitor_vars, peak_finder, analyzer, batch>>

BandpassNext == ApplyBandpassFilter

BandpassSpec == BandpassInit /\ [][BandpassNext]_vars

\* ------------------------------------------------------------ AudioAnalyzer
\* A configuration file that narrows the infrasound band to 5-20 Hz and sets
\* both minimum durations to 11 microseconds.
CustomConfig ==
    [sample_rate |-> 96000,
     infrasound |-> [min |-> 500, max |-> infra_max,
                     threshold_db |-> infra_threshold, min_duration |-> 11],
     ultrasound |-> [min |-> ultra_min, max |-> ultra_max,
                     threshold_db |-> ultra_threshold, min_duration |-> 11]]

\* A configuration file whose infrasound band is inverted: 30 Hz to 20 Hz.
InvertedConfig ==
    [sample_rate |-> 96000,
     infrasound |-> [min |-> 3000, max |-> infra_max,
                     threshold_db |-> infra_threshold,
                     min_duration |-> 500000],
     ultrasound |-> [min |-> ultra_min, max |-> ultra_max,
                     threshold_db |-> ultra_threshold,
                     min_duration |-> 50000]]

\* __init__ keeps whatever _load_config returns: nothing checks the bands.
Configs == {DefaultConfig, CustomConfig, InvertedConfig}

\* Frequencies (centihertz) of the spectral bins a buffer is observed at,
\* ascending as fftfreq yields them: 1, 3, 8, 12, 16 and 20 Hz, then 20, 30
\* and 47 kHz.
AnalyzerBinFreqs ==
    <<100, 300, 800, 1200, 1600, 2000, 2000000, 3000000, 4700000>>

\* Magnitude levels (dB) of the bins up to 20 Hz and of the bins from 20 kHz.
LowBinLevels == {-50, -40, -10}

HighBinLevels == {-60, -50, -40}

AnalyzerSpectra ==
    { m \in [DOMAIN AnalyzerBinFreqs -> LowBinLevels \cup HighBinLevels] :
        \A i \in DOMAIN m :
            m[i] \in IF AnalyzerBinFreqs[i] <= infra_max
                     THEN LowBinLevels ELSE HighBinLevels }

\* A buffer is represented by the spectrum of its samples, the buffer
\* without samples by the empty sequence.
EmptyBuffer == <<>>

Buffers == AnalyzerSpectra \cup {EmptyBuffer}

\* fftfreq(N, 1/sample_rate)[fft_freq > 0] of a buffer
BinFreqs(magnitudes_db) ==
    IF magnitudes_db = EmptyBuffer THEN <<>> ELSE AnalyzerBinFreqs

\* What the order-5 Butterworth band filter takes off a component outside
\* its pass band, in dB.
StopbandAttenuation == 20

\* compute_fft(apply_bandpass_filter(audio, lowcut, highcut)): the spectrum
\* of the filtered buffer.  Components inside the pass band keep their
\* magnitude, components outside it are attenuated.
FilteredSpectrum(frequencies, magnitudes_db, edges) ==
    [i \in DOMAIN magnitudes_db |->
        IF frequencies[i] >= edges.low /\ frequencies[i] <= edges.high
        THEN magnitudes_db[i]
        ELSE magnitudes_db[i] - StopbandAttenuation]

\* distance=int(self.sample_rate * det_config['min_duration']), with
\* min_duration in microseconds; the sample rates are whole kHz, and
\* dividing in two steps keeps the product within 32 bits
MinSeparation(sample_rate, min_duration) ==
    ((sample_rate \div 1000) * min_duration) \div 1000

\* array[mask]: the entries of array at the indices of mask, in order
Masked(array, mask) ==
    LET indices == Ascending(mask)
    IN [k \in DOMAIN indices |-> array[indices[k]]]

\* timestamp: None
NoTimestamp == "None"

\* Lines 196-227 and 245-276, the part the two detectors share: filter,
\* spectrum, band mask, find_peaks, one event per returned peak.  Yields
\* every outcome the call can have: the error raised, or the event list.
\* signal.butter raises ValueError for edges it does not accept, and fft
\* raises ValueError for a buffer without samples.
DetectBand(type, frequencies, magnitudes_db, edges, mask, threshold, distance) ==
    IF ~ButterAccepts(edges) \/ magnitudes_db = EmptyBuffer
    THEN { [error |-> "ValueError", events |-> <<>>] }
    ELSE LET filtered == FilteredSpectrum(frequencies, magnitudes_db, edges)
             band_db == Masked(filtered, mask)
             band_hz == Masked(frequencies, mask)
         IN { [error |-> r.error,
               events |-> [k \in DOMAIN r.peaks |->
                   [type |-> type,
                    frequency_hz |-> band_hz[r.peaks[k]],
                    magnitude_db |-> band_db[r.peaks[k]],
                    timestamp |-> NoTimestamp]]] :
              r \in FindPeaks(band_db, threshold, distance) }

\* detect_infrasound: the mask is `frequencies < max`
DetectInfrasound(config, frequencies, magnitudes_db) ==
    LET band == config.infrasound IN
    DetectBand("infrasound", frequencies, magnitudes_db,
               BandEdges(band.min, band.max, config.sample_rate),
               {i \in DOMAIN frequencies : frequencies[i] < band.max},
               band.threshold_db,
               MinSeparation(config.sample_rate, band.min_duration))

\* detect_ultrasound: the high cutoff is min(max, sample_rate / 2 - 1000),
\* the mask is `(frequencies >= min) & (frequencies <= max)`
DetectUltrasound(config, frequencies, magnitudes_db) ==
    LET band == config.ultrasound IN
    DetectBand("ultrasound", frequencies, magnitudes_db,
               BandEdges(band.min,
                         Min2(band.max, Nyquist(config.sample_rate) - 100000),
                         config.sample_rate),
               {i \in DOMAIN frequencies :
                    frequencies[i] >= band.min /\ frequencies[i] <= band.max},
               band.threshold_db,
               MinSeparation(config.sample_rate, band.min_duration))

Modes == {"infrasound", "ultrasound", "full", "other"}

\* A selection that runs both detectors whatever the mode.
SelectsDetectorAlways(mode, type) == TRUE

\* `if mode in ['infrasound', 'full']`, `if mode in ['ultrasound', 'full']`
SelectsDetector(mode, type) == mode \in {type, "full"}

\* An extend that puts the new events in front.
ExtendFront(events, more) == more \o events

\* results['events'].extend(...)
Extend(events, more) == events \o more

\* Lines 293 and 302-309 of analyze_full_spectrum: preprocess, whose
\* np.max raises ValueError on a buffer without samples, then the detectors
\* mode selects, the infrasound one first; an exception propagates.
AnalyzeOutcomes(config, mode, frequencies, magnitudes_db) ==
    LET nothing == { [error |-> "none", events |-> <<>>] }
        infra == IF SelectsDetector(mode, "infrasound")
                 THEN DetectInfrasound(config, frequencies, magnitudes_db)
                 ELSE nothing
        ultra == IF SelectsDetector(mode, "ultrasound")
                 THEN DetectUltrasound(config, frequencies, magnitudes_db)
                 ELSE nothing
    IN IF magnitudes_db = EmptyBuffer
       THEN { [error |-> "ValueError", events |-> <<>>] }
       ELSE
       { IF i.error # "none" THEN i
         ELSE IF u.error # "none" THEN u
         ELSE [error |-> "none",
               events |-> Extend(Extend(<<>>, i.events), u.events)] :
         i \in infra, u \in ultra }

\* An analyzer is constructed with a configuration and a buffer is loaded.
AnalyzerInit ==
    /\ InitWith({1}, {1})
    /\ batch = NoBatch
    /\ peak_finder = NoPeakFinder
    /\ filter = NoFilter
    /\ analyzer \in
           { [pc |-> "loaded", config |-> c, magnitudes_db |-> m,
              call |-> "none", mode |-> "none", events |-> <<>>,
              total_events |-> 0] :
             c \in Configs, m \in Buffers }

\* analyze_full_spectrum(file_path, mode) on the loaded buffer
AnalyzeFullSpectrum(mode) ==
    /\ analyzer.pc = "loaded"
    /\ \E r \in AnalyzeOutcomes(analyzer.config, mode,
                                 BinFreqs(analyzer.magnitudes_db),
                                 analyzer.magnitudes_db) :
           analyzer' = [analyzer EXCEPT
               !.pc = IF r.error = "none" THEN "analyzed" ELSE r.error,
               !.call = "analyze_full_spectrum",
               !.mode = mode,
               !.events = r.events,
               !.total_events = Len(r.events)]
    /\ UNCHANGED <<monitor_vars, peak_finder, filter, batch>>

\* detect_infrasound(audio) or detect_ultrasound(audio) called directly on
\* the loaded buffer
Detect(type) ==
    /\ analyzer.pc = "loaded"
    /\ \E r \in IF type = "infrasound"
                THEN DetectInfrasound(analyzer.config,
                                      BinFreqs(analyzer.magnitudes_db),
                                      analyzer.magnitudes_db)
                ELSE DetectUltrasound(analyzer.config,
                                      BinFreqs(analyzer.magnitudes_db),
                                      analyzer.magnitudes_db) :
           analyzer' = [analyzer EXCEPT
               !.pc = IF r.error = "none" THEN "detected" ELSE r.error,
               !.call = "detect_" \o type,
               !.events = r.events]
    /\ UNCHANGED <<monitor_vars, peak_finder, filter, batch>>

\* The same buffer goes through the streaming detection instead, as one
\* window of a RealtimeMonitor with the same configuration.  A window has
\* samples_per_interval samples, so it is never without samples.
StreamBuffer ==
    /\ analyzer.pc = "loaded"
    /\ analyzer.magnitudes_db # EmptyBuffer
    /\ analyzer' = [analyzer EXCEPT
           !.pc = "streamed",
           !.call = "_process_audio_buffer",
           !.events = ProcessAudioBufferWith(analyzer.config,
                          AnalyzerBinFreqs, analyzer.magnitudes_db, 1)]
    /\ UNCHANGED <<monitor_vars, peak_finder, filter, batch>>

AnalyzerNext ==
    \/ \E mode \in Modes : AnalyzeFullSpectrum(mode)
    \/ \E type \in {"infrasound", "ultrasound"} : Detect(type)
    \/ StreamBuffer

AnalyzerSpec == AnalyzerInit /\ [][AnalyzerNext]_vars

\* =================================================== batch_processor.py

MaxFiles == 2

\* Buffers that load_audio finds in a file: one below both thresholds, one
\* with a bin above the threshold in each band.
QuietSamples == <<-50, -50, -50, -50, -50, -50, -60, -60, -60>>

LoudSamples == <<-50, -10, -50, -50, -50, -50, -60, -40, -60>>

\* What a file holds: something librosa.load cannot read, or a buffer.
Contents ==
    { [readable |-> FALSE, samples |-> EmptyBuffer] }
    \cup { [readable |-> TRUE, samples |-> m] :
             m \in {EmptyBuffer, QuietSamples, LoudSamples} }

\* The entries of input_dir: the suffix of the name and what the file holds.
Files == [suffix : {".wav", ".WAV"}, content : Contents]

Directories == UNION { [1..n -> Files] : n \in 0..MaxFiles }

\* str.upper() of a suffix
Upper(suffix) == IF suffix = ".wav" THEN ".WAV" ELSE suffix

\* input_path.glob("*" + suffix): the entries whose name ends in the
\* suffix, case ignored where the platform's pathlib ignores it (Windows).
Glob(directory, suffix, case_sensitive) ==
    LET Matches(k) == IF case_sensitive
                      THEN directory[k].suffix = suffix
                      ELSE Upper(directory[k].suffix) = Upper(suffix)
    IN SelectSeq([k \in DOMAIN directory |-> k], Matches)

\* Lines 91-94 of process_directory: for each extension the matches of the
\* extension, then the matches of its upper case.
RECURSIVE AudioFiles(_, _, _)
AudioFiles(directory, file_extensions, case_sensitive) ==
    IF file_extensions = <<>>
    THEN <<>>
    ELSE Glob(directory, Head(file_extensions), case_sensitive)
         \o Glob(directory, Upper(Head(file_extensions)), case_sensitive)
         \o AudioFiles(directory, Tail(file_extensions), case_sensitive)

\* Lines 56-64 of process_file: the result of a file whose analysis raised.
ErrorResult(file, error) == [file |-> file, status |-> "error", error |-> error, events |-> <<>>, total_events |-> 0]

\* process_file: analyze_full_spectrum under try/except Exception.
\* load_audio re-raises what librosa.load raised.
ProcessFileResults(file, content, mode) ==
    LET outcomes ==
            IF ~content.readable
            THEN { [error |-> "Exception", events |-> <<>>] }
            ELSE AnalyzeOutcomes(DefaultConfig, mode,
                                 BinFreqs(content.samples), content.samples)
    IN { IF o.error = "none"
         THEN [file |-> file, status |-> "success", error |-> "None",
               events |-> o.events, total_events |-> Len(o.events)]
         ELSE ErrorResult(file, o.error) : o \in outcomes }

RECURSIVE SumOf(_)
SumOf(numbers) ==
    IF numbers = <<>> THEN 0 ELSE Head(numbers) + SumOf(Tail(numbers))

\* len([e for e in events if e['type'] == type])
CountType(events, type) ==
    LET IsType(event) == event.type = type IN Len(SelectSeq(events, IsType))

\* sum(1 for r in results if r['status'] == status)
CountStatus(results, status) ==
    LET HasStatus(r) == r.status = status IN Len(SelectSeq(results, HasStatus))

\* The empty dict
NoStatistics == [key \in {} |-> 0]

\* get_statistics over self.results
Statistics(results) ==
    IF results = <<>>
    THEN NoStatistics
    ELSE [total_files |-> Len(results),
          successful_files |-> CountStatus(results, "success"),
          failed_files |-> CountStatus(results, "error"),
          total_events |->
              SumOf([k \in DOMAIN results |-> results[k].total_events]),
          infrasound_events |->
              SumOf([k \in DOMAIN results |->
                         CountType(results[k].events, "infrasound")]),
          ultrasound_events |->
              SumOf([k \in DOMAIN results |->
                         CountType(results[k].events, "ultrasound")])]

\* A BatchProcessor is constructed; input_dir holds some files.
BatchInit ==
    /\ InitWith({1}, {1})
    /\ peak_finder = NoPeakFinder
    /\ filter = NoFilter
    /\ analyzer = NoAnalyzer
    /\ batch \in
           { [pc |-> "constructed", directory |-> d, file_extensions |-> x,
              case_sensitive |-> c, mode |-> m, audio_files |-> <<>>,
              results |-> <<>>, returned |-> <<>>,
              statistics |-> NoStatistics] :
             d \in Directories, x \in {<<".wav">>, <<".WAV">>},
             c \in BOOLEAN, m \in Modes }

\* process_directory up to its loop: the files are listed; without files it
\* returns [] and leaves self.results alone.
ProcessDirectory ==
    /\ batch.pc = "constructed"
    /\ LET audio_files == AudioFiles(batch.directory, batch.file_extensions,
                                     batch.case_sensitive)
       IN batch' = IF audio_files = <<>>
                   THEN [batch EXCEPT !.pc = "returned", !.returned = <<>>]
                   ELSE [batch EXCEPT !.pc = "processing",
                                      !.audio_files = audio_files,
                                      !.results = <<>>]
    /\ UNCHANGED <<monitor_vars, peak_finder, filter, analyzer>>

\* One round of the loop of process_directory: the next file is processed
\* and its result appended.
ProcessFile ==
    /\ batch.pc = "processing"
    /\ Len(batch.results) < Len(batch.audio_files)
    /\ LET file == batch.audio_files[Len(batch.results) + 1]
       IN \E result \in ProcessFileResults(file,
                                           batch.directory[file].content,
                                           batch.mode) :
              batch' = [batch EXCEPT !.results = Append(@, result)]
    /\ UNCHANGED <<monitor_vars, peak_finder, filter, analyzer>>

\* The loop is over: the reports are written and self.results returned.
GenerateReports ==
    /\ batch.pc = "processing"
    /\ Len(batch.results) = Len(batch.audio_files)
    /\ batch' = [batch EXCEPT !.pc = "returned", !.returned = batch.results]
    /\ UNCHANGED <<monitor_vars, peak_finder, filter, analyzer>>

\* get_statistics() after process_directory returned
GetStatistics ==
    /\ batch.pc = "returned"
    /\ batch' = [batch EXCEPT !.pc = "reported",
                              !.statistics = Statistics(batch.results)]
    /\ UNCHANGED <<monitor_vars, peak_finder, filter, analyzer>>

BatchNext ==
    \/ ProcessDirectory
    \/ ProcessFile
    \/ GenerateReports
    \/ GetStatistics

BatchSpec == BatchInit /\ [][BatchNext]_vars

\* ================================================================ claims

\* C1 (as the claim states it): the capture-to-worker queue never holds more
\* than its capacity N, and once N or more chunks have been pushed with
\* nothing popped it holds exactly the newest N chunks, oldest first.
C1_QueueBoundedDropOldest ==
    /\ Len(audio_queue) <= QueueCapacity
    /\ ((\A w \in WorkerIds : workers[w].dequeued = <<>>)
            /\ n_captured >= QueueCapacity)
        => audio_queue = [i \in 1..QueueCapacity |->
                              n_captured - QueueCapacity + i]

\* C2: whenever a stream is open the audio callback can run, whatever the
\* queue holds and whatever the worker and the callers are doing, with or
\* without a status flag; and every delivery is one step that appends
\* exactly the delivered chunk to the queue and touches nothing else of the
\* pipeline.
C2_CallbackNeverBlocks ==
    [][ /\ ((\E t \in Callers : StreamOpen(t)) /\ n_captured < MaxChunks)
            => /\ ENABLED AudioCallback(TRUE, MaxChunks)
               /\ ENABLED AudioCallback(FALSE, MaxChunks)
        /\ n_captured' # n_captured
            => /\ n_captured' = n_captured + 1
               /\ audio_queue' = Append(audio_queue, n_captured')
               /\ UNCHANGED <<is_monitoring, workers, callers,
                              detected_events>> ]_vars

\* C2 witness: every chunk was delivered and is waiting in the queue, a
\* status flag was logged, and the stream is open with no worker running.
C2_Witness ==
    /\ status_logged
    /\ n_captured = MaxChunks
    /\ Len(audio_queue) = MaxChunks
    /\ \E t \in Callers : StreamOpen(t)
    /\ \A w \in WorkerIds : ~Alive(w)

\* C3 (as the claim states it): the step by which start() with a device
\* that cannot be opened begins leaves the running flag, the worker threads,
\* the event list and the callback list as they were.
C3_FailedStartLeavesIdle ==
    [][ \A t \in Callers :
          (callers[t].pc = "idle" /\ callers'[t].op = "start"
               /\ callers'[t].device = "bad")
          => UNCHANGED <<is_monitoring, workers, detected_events,
                         event_callbacks>> ]_vars

\* C4 (as the claim states it): a start() whose device could not be opened
\* hands its caller a DeviceError.
C4_FailedStartRaisesDeviceError ==
    \A t \in Callers :
        (callers[t].pc = "returned" /\ callers[t].op = "start"
             /\ callers[t].device_failed)
        => callers[t].outcome = "DeviceError"

\* C5 (as the claim states it): when a stop() called during the sleep of
\* another thread's start(duration=d) has returned, that start's stream is
\* closed (so the audio callback pushes nothing more).
C5_StopPreemptsTimedRun ==
    \A t \in Callers :
        (callers[t].pc = "returned" /\ callers[t].op = "stop"
             /\ callers[t].preempts # NoCaller
             /\ callers[callers[t].preempts].preempted)
        => ~StreamOpen(callers[t].preempts)

\* C6 (as the claim states it): a stop() whose join timed out hands its
\* caller a ShutdownTimeoutError.
C6_JoinTimeoutRaises ==
    \A t \in Callers :
        (callers[t].pc = "returned" /\ callers[t].op = "stop"
             /\ callers[t].join_timed_out)
        => callers[t].outcome = "ShutdownTimeoutError"

\* C7 (as the claim states it): a worker that was running when stop()
\* cleared the flag eventually leaves its loop.
C7_WorkerExitsAfterStop ==
    \A w \in WorkerIds :
        workers[w].stop_signalled ~> (workers[w].pc = "done")

\* C8: a stop() called while is_monitoring is false returns at once, prints
\* no summary and changes neither the flag, the thread reference, the
\* threads, the queue, the event list nor the callback list.
C8_StopWhenIdleIsNoop ==
    [][ \A t \in Callers :
          (callers[t].pc = "idle" /\ callers'[t].op = "stop"
               /\ callers'[t].pc # "idle" /\ ~is_monitoring)
          => /\ callers'[t].pc = "returned"
             /\ callers'[t].printed = NoSummary
             /\ UNCHANGED <<is_monitoring, monitor_thread, workers,
                            audio_queue, detected_events,
                            event_callbacks>> ]_vars

\* C8 witness: a stop() on an idle pipeline has just returned.
C8_Witness ==
    \E t \in Callers :
        /\ callers[t].pc = "returned"
        /\ callers[t].op = "stop"
        /\ callers[t].printed = NoSummary
        /\ ~is_monitoring

\* C9: for every worker, the windows whose handling completed are the
\* consecutive blocks of samples_per_interval samples of what it dequeued,
\* in order, and its accumulation buffer is exactly the rest.
C9_WindowsAreConsecutiveBlocks ==
    \A w \in WorkerIds :
        LET n == samples_per_interval
            done == workers[w].analysed
        IN
        /\ \A i \in DOMAIN done :
               done[i] = SubSeq(workers[w].dequeued, (i - 1) * n + 1, i * n)
        /\ workers[w].acc = Drop(workers[w].dequeued, Len(done) * n)

\* C9 witness: a worker has completed two windows with chunks and windows
\* of different sizes, and holds samples not yet analysed.
C9_Witness ==
    \E w \in WorkerIds :
        /\ Len(workers[w].analysed) >= 2
        /\ buffer_size # samples_per_interval
        /\ workers[w].acc # <<>>

\* C10 (as the claim states it): while a callback runs for an event, the
\* event is not in the event list yet.
C10_CallbackBeforeAppend ==
    \A w \in WorkerIds :
        InCallback(w) => CurrentEvent(w) \notin Range(detected_events)

\* C10, amended: while a callback runs for an event, the event is already
\* in the event list, unless the list was emptied after the append.
C10_AppendBeforeCallback ==
    \A w \in WorkerIds :
        InCallback(w) => \/ CurrentEvent(w) \in Range(detected_events)
                         \/ workers[w].list_emptied

\* C10 witness: a callback runs for an event that is in the list.
C10_Witness ==
    \E w \in WorkerIds :
        /\ InCallback(w)
        /\ ~workers[w].list_emptied
        /\ CurrentEvent(w) \in Range(detected_events)
        /\ CurrentEvent(w).timestamp > 0

\* C11: while a worker dispatches an event, the callbacks it has invoked for
\* it so far are exactly the first registrations of event_callbacks, in
\* registration order and once each, whether or not some of them raised; and
\* a worker that is back at its loop test, or has left the loop, has no
\* event of a window left undispatched.
C11_CallbacksInRegistrationOrder ==
    \A w \in WorkerIds :
        /\ workers[w].pc = "callbacks"
            => /\ workers[w].cb <= Len(event_callbacks) + 1
               /\ [i \in 1..Len(workers[w].invoked) |->
                       workers[w].invoked[i].callback]
                   = Take(event_callbacks, workers[w].cb - 1)
        /\ workers[w].pc \in {"check", "get", "done"}
            => workers[w].pending = <<>>

\* C11 witness: the worker dispatches the second event of a window after
\* the first callback raised on both events; the second callback has run.
C11_Witness ==
    \E w \in WorkerIds :
        /\ workers[w].pc = "callbacks"
        /\ workers[w].ev = 2
        /\ event_callbacks = <<"raises", "good">>
        /\ Len(workers[w].invoked) = 2
        /\ workers[w].invoked[1].raised
        /\ workers[w].invoked[2].callback = "good"

\* C12 (as the claim states it): every step either leaves the events
\* already in detected_events in place, or is a clear_events().
C12_EventListOnlyGrows ==
    [][ \/ /\ Len(detected_events') >= Len(detected_events)
           /\ Take(detected_events', Len(detected_events)) = detected_events
        \/ \E t \in Callers : ClearEvents(t) ]_vars

\* C13 (as the claim states it): a start() that was given a duration (zero
\* or positive) and began monitoring eventually returns with is_monitoring
\* false.
C13_TimedStartReturnsIdle ==
    \A t \in Callers :
        (callers[t].pc \in {"start_open", "start_wait"}
             /\ callers[t].duration # "none")
        ~> (callers[t].pc = "returned" /\ ~is_monitoring)

\* An event list without its timestamps.
WithoutTimestamps(events) ==
    [k \in DOMAIN events |->
        [type |-> events[k].type, frequency_hz |-> events[k].frequency_hz,
         magnitude_db |-> events[k].magnitude_db]]

\* The configured band of an event.
BandOf(event) ==
    IF event.type = "infrasound" THEN analyzer.config.infrasound
    ELSE analyzer.config.ultrasound

\* The buffer has been through the offline detectors or the streaming one.
Detected == analyzer.pc \in {"analyzed", "detected", "streamed"}

\* C14 (as the claim states it): the events the streaming detection emits
\* for a window are, timestamps aside, the events the offline infrasound
\* and ultrasound detectors can return for the same samples under the same
\* configuration.
C14_StreamingMatchesOffline ==
    analyzer.pc = "streamed"
    => \E r \in AnalyzeOutcomes(analyzer.config, "full", AnalyzerBinFreqs,
                                 analyzer.magnitudes_db) :
           /\ r.error = "none"
           /\ WithoutTimestamps(r.events) = WithoutTimestamps(analyzer.events)

\* C15 (as the claim states it): every event of the offline detectors and
\* of the streaming detection has a frequency within the configured range
\* of its band, ends included.
C15_FrequencyInsideBand ==
    Detected
    => \A k \in DOMAIN analyzer.events :
           /\ analyzer.events[k].frequency_hz >= BandOf(analyzer.events[k]).min
           /\ analyzer.events[k].frequency_hz <= BandOf(analyzer.events[k]).max

\* C16 (as the claim states it): every event of the offline detectors and
\* of the streaming detection has a magnitude strictly above the threshold
\* of its band.
C16_MagnitudeAboveThreshold ==
    Detected
    => \A k \in DOMAIN analyzer.events :
           analyzer.events[k].magnitude_db
               > BandOf(analyzer.events[k]).threshold_db

\* C19: in the event list of a full analysis and in the events of a
\* streamed window, no infrasound event comes after an ultrasound event,
\* and events of the same band are in strictly ascending frequency.
C19_EventsAreOrdered ==
    (analyzer.pc = "streamed"
         \/ (analyzer.pc = "analyzed" /\ analyzer.mode = "full"))
    => \A i, j \in DOMAIN analyzer.events :
           i < j
           => /\ analyzer.events[i].type = "ultrasound"
                  => analyzer.events[j].type = "ultrasound"
              /\ analyzer.events[i].type = analyzer.events[j].type
                  => analyzer.events[i].frequency_hz
                         < analyzer.events[j].frequency_hz

\* C19 witness: a full analysis returned two infrasound events followed by
\* an ultrasound event.
C19_Witness ==
    /\ analyzer.pc = "analyzed"
    /\ analyzer.mode = "full"
    /\ Len(analyzer.events) = 3
    /\ analyzer.events[2].type = "infrasound"
    /\ analyzer.events[3].type = "ultrasound"

\* The qualifying local maxima of the sequence find_peaks was called on.
Qualifying ==
    SelectByHeight(peak_finder.x, LocalMaxima(peak_finder.x),
                   peak_finder.height)

\* C17: no two peaks returned by find_peaks are closer than the distance it
\* was given, whatever the magnitudes and the distance.
C17_PeaksAreSeparated ==
    peak_finder.pc = "returned"
    => \A i, j \in DOMAIN peak_finder.peaks :
           i < j => peak_finder.peaks[j] - peak_finder.peaks[i]
                        >= peak_finder.distance

\* C17 witness: find_peaks was given three qualifying maxima two bins apart
\* and a distance of three, and returned two peaks.
C17_Witness ==
    /\ peak_finder.pc = "returned"
    /\ peak_finder.distance = 3
    /\ Cardinality(Qualifying) = 3
    /\ Len(peak_finder.peaks) = 2

\* C18 (as the claim states it): of two qualifying local maxima closer than
\* the distance, exactly the higher one is returned, and the earlier one if
\* their heights are equal.
C18_HigherOrEarlierIsKept ==
    peak_finder.pc = "returned"
    => \A p, q \in Qualifying :
           (p < q /\ q - p < peak_finder.distance)
           => Range(peak_finder.peaks) \cap {p, q}
                  = IF peak_finder.x[q] > peak_finder.x[p] THEN {q} ELSE {p}

\* C18, amended: of two qualifying local maxima closer than the distance
\* at most one is returned, and every qualifying maximum that is not
\* returned is closer than the distance to a returned peak at least as high.
C18_DroppedPeakIsDominated ==
    peak_finder.pc = "returned"
    => /\ \A p, q \in Qualifying :
              (p < q /\ q - p < peak_finder.distance)
              => ~({p, q} \subseteq Range(peak_finder.peaks))
       /\ \A p \in Qualifying \ Range(peak_finder.peaks) :
              \E q \in Range(peak_finder.peaks) :
                  /\ TooClose(p, q, peak_finder.distance)
                  /\ peak_finder.x[q] >= peak_finder.x[p]

\* C18 witness: two qualifying maxima of equal height are closer than the
\* distance, and the later one is the one returned.
C18_Witness ==
    /\ peak_finder.pc = "returned"
    /\ \E p, q \in Qualifying :
           /\ p < q
           /\ q - p < peak_finder.distance
           /\ peak_finder.x[p] = peak_finder.x[q]
           /\ q \in Range(peak_finder.peaks)
           /\ p \notin Range(peak_finder.peaks)

\* C20 (as the claim states it): the edges handed to the filter design are
\* strictly between 0 and the Nyquist frequency, the low one strictly below
\* the high one, whatever the cutoffs and the sample rate.
C20_EdgesInsideNyquist ==
    filter.pc \in {"filtered", "ValueError"}
    => /\ 0 < filter.edges.low
       /\ filter.edges.low < filter.edges.high
       /\ filter.edges.high < filter.edges.nyquist

\* C23 (as the claim states it): no window goes to detection more than
\* once, whether or not its processing raised.
C23_NoWindowIsRetried ==
    \A w \in WorkerIds : workers[w].tries <= 1

\* C26 (as the claim states it): at most one monitoring loop is alive at
\* any time.
C26_AtMostOneWorker ==
    Cardinality({w \in WorkerIds : Alive(w)}) <= 1

\* C27 (as the claim states it): while is_monitoring is false and no stop()
\* is still inside its join, no step invokes a callback or appends an
\* event.
C27_QuiescentAfterStop ==
    [][ (~is_monitoring /\ \A t \in Callers : callers[t].pc # "stop_join")
        => /\ Len(detected_events') <= Len(detected_events)
           /\ \A w \in WorkerIds :
                  Len(workers'[w].invoked) <= Len(workers[w].invoked) ]_vars

\* C28 (as the claim states it): whenever a start() raises the flag, the
\* queue is empty.
C28_QueueEmptyOnStart ==
    [][ (~is_monitoring /\ is_monitoring') => audio_queue' = <<>> ]_vars

\* C29 (as the claim states it): a worker that has completed a loop
\* iteration without an error and is back at its loop test holds fewer
\* than samples_per_interval samples.
C29_AccumulationBounded ==
    \A w \in WorkerIds :
        (workers[w].pc = "check" /\ workers[w].tries = 0)
        => Len(workers[w].acc) < samples_per_interval

\* C30: a start() called while is_monitoring is true returns at once and
\* changes neither the flag, the thread reference, the threads (so no
\* second worker), the other callers (so no second stream), the event
\* list, the callback list nor the queue.
C30_StartWhenRunningIsNoop ==
    [][ \A t \in Callers :
          (callers[t].pc = "idle" /\ callers'[t].op = "start"
               /\ callers'[t].pc # "idle" /\ is_monitoring)
          => /\ callers'[t].pc = "returned"
             /\ \A u \in Callers \ {t} : callers'[u] = callers[u]
             /\ UNCHANGED <<is_monitoring, monitor_thread, workers,
                            audio_queue, detected_events,
                            event_callbacks>> ]_vars

\* C30 witness: a start() has just returned while the pipeline is running
\* on the stream another thread's start() holds open.
C30_Witness ==
    \E t \in Callers :
        /\ callers[t].pc = "returned"
        /\ callers[t].op = "start"
        /\ is_monitoring
        /\ \E u \in Callers \ {t} : StreamOpen(u)
        /\ \E w \in WorkerIds : Alive(w)

\* C21 (as the claim states it): no buffer has been through detection under
\* a configuration with a band whose min is not below its max, or whose
\* max is above the Nyquist frequency.
C21_InvalidBandNeverRuns ==
    Detected
    => \A band \in {analyzer.config.infrasound, analyzer.config.ultrasound} :
           /\ band.min < band.max
           /\ band.max <= Nyquist(analyzer.config.sample_rate)

\* C22 (as the claim states it): detect_infrasound or detect_ultrasound
\* called on a buffer without samples has returned an empty event list.
C22_EmptyBufferGivesNoEvents ==
    (analyzer.magnitudes_db = EmptyBuffer
         /\ analyzer.call \in {"detect_infrasound", "detect_ultrasound"})
    => (analyzer.pc = "detected" /\ analyzer.events = <<>>)

C25_OneResultPerFile ==
    batch.pc \in {"returned", "reported"}
    => LET found == Range(AudioFiles(batch.directory, batch.file_extensions,
                                     batch.case_sensitive))
           returned == batch.returned
           Fails(file) ==
               \E r \in ProcessFileResults(file,
                                           batch.directory[file].content,
                                           batch.mode) : r.status = "error"
           stats == batch.statistics
       IN
       /\ \A file \in found :
              Cardinality({k \in DOMAIN returned :
                              returned[k].file = file}) = 1
       /\ \A k \in DOMAIN returned :
              Fails(returned[k].file)
              => /\ returned[k].status = "error"
                 /\ returned[k].events = <<>>
                 /\ returned[k].total_events = 0
       /\ (batch.pc = "reported" /\ batch.results # <<>>)
              => /\ stats.successful_files + stats.failed_files
                        = stats.total_files
                 /\ stats.total_events
                        = stats.infrasound_events + stats.ultrasound_events

====
